---------------------------- MODULE Spec2Model ----------------------------
(***************************************************************************)
(* A model of bybit_rs (src/src/lib.rs): the parameter encoder, the        *)
(* request signer, the two per-verb request builders, the Client's         *)
(* funding-balance endpoint and BybitRequest::send with its untagged       *)
(* success/error decoding.                                                 *)
(*                                                                         *)
(* Text that the program only concatenates or compares is a TLA+ string;   *)
(* text whose characters the program (or a library it calls) inspects --   *)
(* an API key checked as a header value, a field value that is percent- or *)
(* JSON-escaped -- is a sequence of one-character strings, joined by Str.  *)
(*                                                                         *)
(* Instants (chrono DateTime<Utc>) and durations (std Duration) are finer  *)
(* than a millisecond.  They are counted in ticks, TicksPerMilli ticks to  *)
(* the millisecond.                                                        *)
(***************************************************************************)
EXTENDS Integers, Sequences, FiniteSets, TLC

VARIABLES client,   \* the Client: [api_key, secret]
          now,      \* the wall clock (Utc::now()), in ticks
          reqs,     \* request slots: each one BybitRequest from build to outcome
          signed    \* the last pair of direct calls of sign, with their results

vars == <<client, now, reqs, signed>>

----------------------------------------------------------------------------
(* Bounds of the model *)

TicksPerMilli == 2      \* clock ticks per millisecond
MaxClock == 3           \* the clock stops ticking here
MaxReq == 2             \* request slots a caller holds at once

----------------------------------------------------------------------------
(* Text *)

\* Option<_>
None == [some |-> FALSE]
Some(x) == [some |-> TRUE, val |-> x]

RECURSIVE Str(_)
Str(s) == IF s = <<>> THEN "" ELSE s[1] \o Str(Tail(s))

Digit(d) ==
    CASE d = 0 -> "0" [] d = 1 -> "1" [] d = 2 -> "2" [] d = 3 -> "3"
      [] d = 4 -> "4" [] d = 5 -> "5" [] d = 6 -> "6" [] d = 7 -> "7"
      [] d = 8 -> "8" [] d = 9 -> "9"

\* i64/u128/i32 .to_string(): decimal, no padding, "-" before a negative
RECURSIVE to_string(_)
to_string(n) ==
    IF n < 0 THEN "-" \o to_string(-n)
    ELSE IF n < 10 THEN Digit(n)
    ELSE to_string(n \div 10) \o Digit(n % 10)

\* variant: DateTime::timestamp, whole seconds
timestamp_seconds(t) == t \div (1000 * TicksPerMilli)

\* DateTime::timestamp_millis and Duration::as_millis: whole milliseconds
timestamp_millis(t) == t \div TicksPerMilli
as_millis(d) == d \div TicksPerMilli

Ok(v) == [ok |-> TRUE, val |-> v]
Err(e) == [ok |-> FALSE, err |-> e]

----------------------------------------------------------------------------
(* Params<T>::to_string: serde_qs for Params::Get, serde_json for          *)
(* Params::Post.  The values of T modelled:                                *)
(*   [kind |-> "struct", a, b]   a struct {a: i32, b: String}              *)
(*   [kind |-> "funding", coin]  FundingRequest, coin: Option<String>      *)
(*   [kind |-> "int", n]         a bare integer (no query-string form)     *)
(*   [kind |-> "failing"]        a value whose Serialize impl returns Err  *)

Unreserved == {"x", "a", "b", "B", "T", "C", "1", "2"}

\* serde_qs percent-encodes a value character outside the unreserved set
QsChar(c) ==
    CASE c \in Unreserved -> c
      [] c = "&" -> "%26"
      [] c = "=" -> "%3D"
      [] c = " " -> "+"
      [] c = "\"" -> "%22"

RECURSIVE QsValue(_)
QsValue(s) == IF s = <<>> THEN "" ELSE QsChar(s[1]) \o QsValue(Tail(s))

\* serde_json escapes the quote inside a string
JsonChar(c) == IF c = "\"" THEN "\\\"" ELSE c

RECURSIVE JsonChars(_)
JsonChars(s) == IF s = <<>> THEN "" ELSE JsonChar(s[1]) \o JsonChars(Tail(s))

JsonString(s) == "\"" \o JsonChars(s) \o "\""

qs_to_string(v) ==
    CASE v.kind = "struct" ->
           Ok("a=" \o to_string(v.a) \o "&b=" \o QsValue(v.b))
      [] v.kind = "funding" ->
           Ok("accountType=FUND"
              \o (IF v.coin.some THEN "&coin=" \o QsValue(v.coin.val) ELSE "")
              \o "&withBonus=0")
      [] v.kind = "int" -> Err("encode")
      [] v.kind = "failing" -> Err("encode")

json_to_string(v) ==
    CASE v.kind = "struct" ->
           Ok("{\"a\":" \o to_string(v.a) \o ",\"b\":" \o JsonString(v.b) \o "}")
      [] v.kind = "funding" ->
           Ok("{\"accountType\":\"FUND\",\"coin\":"
              \o (IF v.coin.some THEN JsonString(v.coin.val) ELSE "null")
              \o ",\"withBonus\":0}")
      [] v.kind = "int" -> Ok(to_string(v.n))
      [] v.kind = "failing" -> Err("encode")

Get(v) == [mode |-> "Get", value |-> v]
Post(v) == [mode |-> "Post", value |-> v]

Params_to_string(params) ==
    IF params.mode = "Get" THEN qs_to_string(params.value)
    ELSE json_to_string(params.value)

----------------------------------------------------------------------------
(* sign.  HMAC-SHA256 and its hex encoding are not computed: the MAC is    *)
(* the symbolic value of its key and its message, so two signatures are    *)
(* equal exactly when key and signed base string are.                      *)

hex_hmac(key, msg) == [key |-> key, msg |-> msg]

\* variant: the receive window left out of the base string
SignBaseNoWindow(timestamp, api_key, recv_window, params) ==
    timestamp \o api_key \o params

\* format!("{timestamp}{api_key}{recv_window}{params}")
SignBase(timestamp, api_key, recv_window, params) ==
    timestamp \o api_key \o recv_window \o params

sign(secret, timestamp, api_key, recv_window, params) ==
    LET ts == to_string(timestamp_millis(timestamp))
        rw == to_string(as_millis(recv_window))
        p == Params_to_string(params)
    IN IF ~p.ok THEN p
       ELSE Ok(hex_hmac(Str(secret), SignBase(ts, Str(api_key), rw, p.val)))

----------------------------------------------------------------------------
(* Direct calls of sign on two argument tuples *)

SignSecrets == {<<"s">>, <<"t">>}
SignTimes == {TicksPerMilli, TicksPerMilli + 1, 12 * TicksPerMilli}
SignKeys == {<<"3">>, <<"2", "3">>, <<"k">>}
SignWindows == {5 * TicksPerMilli, 5 * TicksPerMilli + 1, 55 * TicksPerMilli}
SignParams == {Get([kind |-> "struct", a |-> 1, b |-> <<"x">>]),
               Post([kind |-> "struct", a |-> 1, b |-> <<"x">>]),
               Post([kind |-> "int", n |-> 5]),
               Get([kind |-> "int", n |-> 5])}

SignArgs == [secret : SignSecrets, timestamp : SignTimes, api_key : SignKeys,
             recv_window : SignWindows, params : SignParams]

SignOf(x) == sign(x.secret, x.timestamp, x.api_key, x.recv_window, x.params)

\* two argument tuples are drawn, then sign is applied to each
SignInit ==
    /\ client = [api_key |-> <<"k">>, secret |-> <<"s">>]
    /\ now = 0
    /\ reqs = [i \in 1..MaxReq |-> [status |-> "none"]]
    /\ signed \in [x : SignArgs, y : SignArgs, called : {FALSE}]

SignPair ==
    /\ ~signed.called
    /\ signed' = [x |-> signed.x, y |-> signed.y, called |-> TRUE,
                  rx |-> SignOf(signed.x), ry |-> SignOf(signed.y)]
    /\ UNCHANGED <<client, now, reqs>>

----------------------------------------------------------------------------
(* The request builders.  A built request is                               *)
(*   [method, uri, headers, body, T]                                       *)
(* with headers a function from the header names set to their values and   *)
(* T the response type the BybitRequest is bound to (its PhantomData).     *)

MAINNET == "https://api.bybit.com"
FUNDING_ENDPOINT == "/v5/asset/transfer/query-account-coins-balance"

\* http::HeaderValue refuses control characters
ControlChars == {"\n", "\r"}
ValidHeaderValue(s) == \A i \in 1..Len(s) : s[i] \notin ControlChars

\* fn uri(&self): format!("{}{}", Self::DOMAIN, Self::ENDPOINT)
uri(ep) == ep.DOMAIN \o ep.ENDPOINT

\* variant: the header takes a new reading of the clock
HeaderTimestampReread(timestamp, later) == to_string(timestamp_millis(later))

\* .header("X-BAPI-TIMESTAMP", timestamp.timestamp_millis().to_string()):
\* `timestamp` is the instant captured on entry; `later` is what the clock
\* shows by the time the header is assembled, which the code does not read
HeaderTimestamp(timestamp, later) == to_string(timestamp_millis(timestamp))

Headers(key, signature, timestamp, later, recv_window) ==
    ("X-BAPI-API-KEY" :> Str(key))
    @@ ("X-BAPI-SIGN" :> signature)
    @@ ("X-BAPI-TIMESTAMP" :> HeaderTimestamp(timestamp, later))
    @@ ("X-BAPI-RECV-WINDOW" :> to_string(as_millis(recv_window)))

\* variant: the body in query-string form
PostBodyAsQuery(self) == qs_to_string(self)

\* .body(serde_json::to_string(self)?)
PostBody(self) == json_to_string(self)

\* IntoPostRequest::as_request, entered at instant `timestamp`
PostAsRequest(self, ep, T, key, secret, recv_window, timestamp, later) ==
    LET params == Post(self)
        sig == sign(secret, timestamp, key, recv_window, params)
        body == PostBody(self)
    IN IF ~sig.ok THEN Err("encode")
       ELSE IF ~body.ok THEN Err("encode")
       ELSE IF ~ValidHeaderValue(key) THEN Err("http")
       ELSE Ok([method |-> "POST",
                uri |-> uri(ep),
                headers |-> Headers(key, sig.val, timestamp, later, recv_window),
                body |-> body.val,
                T |-> T])

\* .uri(format!("{}?{}", self.uri(), params.to_string()?))
GetUri(ep, query) == uri(ep) \o "?" \o query

\* IntoGetRequest::as_request, entered at instant `timestamp`
GetAsRequest(self, ep, T, key, secret, recv_window, timestamp, later) ==
    LET params == Get(self)
        sig == sign(secret, timestamp, key, recv_window, params)
        query == Params_to_string(params)
    IN IF ~sig.ok THEN Err("encode")
       ELSE IF ~query.ok THEN Err("encode")
       ELSE IF ~ValidHeaderValue(key) THEN Err("http")
       ELSE Ok([method |-> "GET",
                uri |-> GetUri(ep, query.val),
                headers |-> Headers(key, sig.val, timestamp, later, recv_window),
                body |-> "",
                T |-> T])

FundingRequest(coin) == [kind |-> "funding", coin |-> coin]
FundingEndpoint == [DOMAIN |-> MAINNET, ENDPOINT |-> FUNDING_ENDPOINT]

\* Client::get_funding_balance: as_request(..).unwrap() returns the request
\* or panics
get_funding_balance(self, coin, recv_window, timestamp, later) ==
    LET r == GetAsRequest(FundingRequest(coin), FundingEndpoint, "FundingBalance",
                          self.api_key, self.secret, recv_window, timestamp, later)
    IN IF r.ok THEN [returned |-> TRUE, val |-> r.val]
       ELSE [returned |-> FALSE, panic |-> r.err]

----------------------------------------------------------------------------
(* Response decoding.  The bytes a transport returns are either not JSON   *)
(* or a JSON object; of the object only retCode, retMsg, result and time   *)
(* matter (retExtInfo is an Option of any JSON value and never decides).   *)
(* A field is absent or holds one of the JSON values below.                *)

Absent == [t |-> "absent"]
Null == [t |-> "null"]
Num(n) == [t |-> "int", v |-> n]          \* an integer that fits an i32
Big == [t |-> "big"]                      \* an integer literal above i32::MAX
StrV(s) == [t |-> "str", v |-> s]
Obj(shape) == [t |-> "obj", v |-> shape]  \* "funding": the fields of FundingBalance
                                          \* "empty": {}

Malformed == [json |-> FALSE]
Reply(code, msg, result, time) ==
    [json |-> TRUE, retCode |-> code, retMsg |-> msg, result |-> result, time |-> time]

de_i32(v) == IF v.t = "int" THEN Ok(v.v) ELSE Err("invalid type")
de_u64(v) == IF v.t = "big" \/ (v.t = "int" /\ v.v >= 0) THEN Ok(v) ELSE Err("invalid type")
de_String(v) == IF v.t = "str" THEN Ok(v.v) ELSE Err("invalid type")

\* a field of type Option<_>: None when the field is absent or null
de_OptionString(v) ==
    IF v.t \in {"absent", "null"} THEN Ok(None)
    ELSE IF v.t = "str" THEN Ok(Some(v.v))
    ELSE Err("invalid type")

de_FundingBalance(v) == IF v = Obj("funding") THEN Ok(v) ELSE Err("invalid type")

(* The response types T modelled: FundingBalance; serde_json::Value, which *)
(* any JSON value present decodes to; Option<FundingBalance>.              *)
ResponseTypes == {"FundingBalance", "Value", "Option"}

de_T(T, v) ==
    CASE T = "FundingBalance" -> de_FundingBalance(v)
      [] T = "Value" -> IF v.t = "absent" THEN Err("missing field") ELSE Ok(v)
      [] T = "Option" -> IF v.t \in {"absent", "null"} THEN Ok(None)
                         ELSE IF v = Obj("funding") THEN Ok(Some(v))
                         ELSE Err("invalid type")

\* variant: any i32 is an error code
BybitErrorCode_any(v) == de_i32(v)

\* impl Deserialize for BybitErrorCode: an i32 that is not 0
BybitErrorCode_deserialize(v) ==
    LET code == de_i32(v)
    IN IF ~code.ok THEN code
       ELSE IF code.val = 0 THEN Err("invalid value")
       ELSE Ok(code.val)

\* #[derive(Deserialize)] struct Response<T>
Response_deserialize(T, b) ==
    LET code == de_i32(b.retCode)
        msg == de_String(b.retMsg)
        result == de_T(T, b.result)
        time == de_u64(b.time)
    IN IF code.ok /\ msg.ok /\ result.ok /\ time.ok
       THEN Ok([return_code |-> code.val, return_message |-> msg.val,
                result |-> result.val, time |-> time.val])
       ELSE Err("invalid type")

\* #[derive(Deserialize)] struct BybitError
BybitError_deserialize(b) ==
    LET code == BybitErrorCode_deserialize(b.retCode)
        message == de_OptionString(b.retMsg)
    IN IF code.ok /\ message.ok
       THEN Ok([code |-> code.val, message |-> message.val])
       ELSE Err("invalid type")

\* variant: no "N/A" for a missing message
fmt_no_fallback(err) ==
    "BybitError: " \o (IF err.message.some THEN err.message.val ELSE "")
    \o " (" \o to_string(err.code) \o ")"

\* impl Display for BybitError
fmt(err) ==
    "BybitError: " \o (IF err.message.some THEN err.message.val ELSE "N/A")
    \o " (" \o to_string(err.code) \o ")"

\* serde_json::from_slice into the untagged _Response<T>: the first variant
\* that decodes, in declaration order (Ok, then Err)
from_slice(T, b) ==
    IF ~b.json THEN Err("syntax")
    ELSE LET ok == Response_deserialize(T, b)
             err == BybitError_deserialize(b)
         IN IF ok.ok THEN Ok([variant |-> "Ok", data |-> ok.val])
            ELSE IF err.ok THEN Ok([variant |-> "Err", err |-> err.val])
            ELSE Err("data did not match any variant")

\* what send returns once the transport has answered with `reply`
\* (Ok(bytes) or Err): the transport's failure, a decode failure, the result
\* or the application error
Outcome(T, reply) ==
    IF ~reply.ok THEN [kind |-> "transport"]
    ELSE LET response == from_slice(T, reply.val)
         IN IF ~response.ok THEN [kind |-> "decode"]
            ELSE IF response.val.variant = "Ok"
            THEN [kind |-> "ok", result |-> response.val.data.result]
            ELSE [kind |-> "app", code |-> response.val.err.code,
                  message |-> response.val.err.message,
                  display |-> fmt(response.val.err)]

----------------------------------------------------------------------------
(* State.  A request slot is                                               *)
(*   [status |-> "none"]                                                   *)
(*   [status |-> "failed", in, err]       as_request returned Err          *)
(*   [status |-> "panicked", in]          get_funding_balance panicked     *)
(*   [status |-> "built", in, req, calls, decodes]                         *)
(*   [status |-> "inflight", ...]         send awaits the transport        *)
(*   [status |-> "done", ..., reply, outcome]                              *)
(* `in` records the arguments of the build and the instant it was entered  *)
(* (at); sent is the request handed to the transport;                      *)
(* calls and decodes count transport invocations and decoding steps.       *)

NoReq == [status |-> "none"]
Slots == 1..MaxReq

Built(in, r) ==
    IF r.ok THEN [status |-> "built", in |-> in, req |-> r.val, calls |-> 0, decodes |-> 0]
    ELSE [status |-> "failed", in |-> in, err |-> r.err]

ClientKeys == {<<"k">>, <<"k", "\n">>}
ClientSecrets == {<<"s">>}

\* Client::new
Init ==
    /\ client \in [api_key : ClientKeys, secret : ClientSecrets]
    /\ now = 0
    /\ reqs = [i \in Slots |-> NoReq]
    /\ signed = None

\* time passes between calls
Tick ==
    /\ now < MaxClock
    /\ now' = now + 1
    /\ UNCHANGED <<client, reqs, signed>>

\* the clock may move on while a request is being built
Elapse == {d \in 0..1 : now + d <= MaxClock}

BuildGet(i, Selfs, Eps, Ts, Keys, Secrets, Windows) ==
    /\ reqs[i].status = "none"
    /\ \E self \in Selfs, ep \in Eps, T \in Ts, key \in Keys, secret \in Secrets,
          recv_window \in Windows, d \in Elapse :
          /\ now' = now + d
          /\ reqs' = [reqs EXCEPT ![i] =
                Built([verb |-> "GET", self |-> self, ep |-> ep, key |-> key,
                       secret |-> secret, recv_window |-> recv_window, at |-> now],
                      GetAsRequest(self, ep, T, key, secret, recv_window, now, now'))]
    /\ UNCHANGED <<client, signed>>

BuildPost(i, Selfs, Eps, Ts, Keys, Secrets, Windows) ==
    /\ reqs[i].status = "none"
    /\ \E self \in Selfs, ep \in Eps, T \in Ts, key \in Keys, secret \in Secrets,
          recv_window \in Windows, d \in Elapse :
          /\ now' = now + d
          /\ reqs' = [reqs EXCEPT ![i] =
                Built([verb |-> "POST", self |-> self, ep |-> ep, key |-> key,
                       secret |-> secret, recv_window |-> recv_window, at |-> now],
                      PostAsRequest(self, ep, T, key, secret, recv_window, now, now'))]
    /\ UNCHANGED <<client, signed>>

FundingBalance(i, Coins, Windows) ==
    /\ reqs[i].status = "none"
    /\ \E coin \in Coins, recv_window \in Windows, d \in Elapse :
          LET in == [verb |-> "GET", self |-> FundingRequest(coin),
                     ep |-> FundingEndpoint, key |-> client.api_key,
                     secret |-> client.secret, recv_window |-> recv_window,
                     at |-> now]
              r == get_funding_balance(client, coin, recv_window, now, now + d)
          IN /\ now' = now + d
             /\ reqs' = [reqs EXCEPT ![i] =
                   IF r.returned THEN Built(in, Ok(r.val))
                   ELSE [status |-> "panicked", in |-> in]]
    /\ UNCHANGED <<client, signed>>

\* variant: the request is built again, with the clock of the send
TransmittedRestamped(r, clock) ==
    GetAsRequest(r.in.self, r.in.ep, r.req.T, r.in.key, r.in.secret,
                 r.in.recv_window, clock, clock).val

\* the request send hands to the transport: self.0, as built
Transmitted(r, clock) == r.req

\* send, up to its await: func(self.0) is called
Send(i) ==
    /\ reqs[i].status = "built"
    /\ reqs' = [reqs EXCEPT ![i] =
          [status |-> "inflight", in |-> @.in, req |-> @.req,
           sent |-> Transmitted(@, now), calls |-> @.calls + 1,
           decodes |-> @.decodes]]
    /\ UNCHANGED <<client, now, signed>>

\* variant: a failed transport is called a second time
ResumeRetry(r, reply) ==
    IF reply.ok
    THEN [status |-> "done", in |-> r.in, req |-> r.req, sent |-> r.sent,
          calls |-> r.calls, decodes |-> r.decodes + 1, reply |-> reply,
          outcome |-> Outcome(r.req.T, reply)]
    ELSE [status |-> "done", in |-> r.in, req |-> r.req, sent |-> r.sent,
          calls |-> r.calls + 1, decodes |-> r.decodes, reply |-> reply,
          outcome |-> Outcome(r.req.T, reply)]

\* send, from its await on: `?` returns the transport's failure, otherwise
\* the bytes are decoded once
Resume(r, reply) ==
    [status |-> "done", in |-> r.in, req |-> r.req, sent |-> r.sent,
     calls |-> r.calls,
     decodes |-> IF reply.ok THEN r.decodes + 1 ELSE r.decodes,
     reply |-> reply,
     outcome |-> Outcome(r.req.T, reply)]

\* the transport's future resolves to Ok(bytes)
TransportOk(i, Bodies) ==
    /\ reqs[i].status = "inflight"
    /\ \E b \in Bodies : reqs' = [reqs EXCEPT ![i] = Resume(@, Ok(b))]
    /\ UNCHANGED <<client, now, signed>>

\* the transport's future resolves to Err(e)
TransportErr(i) ==
    /\ reqs[i].status = "inflight"
    /\ reqs' = [reqs EXCEPT ![i] = Resume(@, Err("transport"))]
    /\ UNCHANGED <<client, now, signed>>

----------------------------------------------------------------------------
(* SpecSign: sign called directly *)

SignNext == SignPair
SpecSign == SignInit /\ [][SignNext]_vars

(* SpecBuild: one request built by either as_request or by the Client *)

BuildSelfs == {[kind |-> "struct", a |-> 1, b |-> <<"x">>],
               [kind |-> "struct", a |-> 2, b |-> <<"a", "&", "\"">>],
               FundingRequest(None),
               [kind |-> "int", n |-> 5],
               [kind |-> "failing"]}
BuildEndpoints == {FundingEndpoint, [DOMAIN |-> MAINNET, ENDPOINT |-> "/v5/order/create"]}
BuildKeys == {<<"k">>, <<"k", "1">>, <<"k", "\n">>}
BuildSecrets == {<<"s">>}
BuildWindows == {5 * TicksPerMilli, 15 * TicksPerMilli + 1}
BuildCoins == {None, Some(<<"B", "T", "C">>)}

BuildNext ==
    \/ Tick
    \/ BuildGet(1, BuildSelfs, BuildEndpoints, {"FundingBalance"}, BuildKeys,
                BuildSecrets, BuildWindows)
    \/ BuildPost(1, BuildSelfs, BuildEndpoints, {"FundingBalance"}, BuildKeys,
                 BuildSecrets, BuildWindows)
    \/ FundingBalance(1, BuildCoins, BuildWindows)

SpecBuild == Init /\ [][BuildNext]_vars

(* SpecSend: one request, bound to any response type, sent through a      *)
(* transport that may answer with any of the bodies below or fail          *)

RetCodes == {Absent, Num(0), Num(10001), Big, StrV("0")}
RetMsgs == {Absent, Null, StrV("OK")}
Results == {Absent, Null, Obj("empty"), Obj("funding")}
Times == {Absent, Num(123), Num(-1)}

Bodies ==
    {Malformed} \cup
    {Reply(c, m, r, t) : c \in RetCodes, m \in RetMsgs, r \in Results, t \in Times}

SendSelfs == {FundingRequest(None)}
SendWindows == {5 * TicksPerMilli}

SendNext ==
    \/ BuildGet(1, SendSelfs, {FundingEndpoint}, ResponseTypes, {<<"k">>},
                {<<"s">>}, SendWindows)
    \/ Send(1)
    \/ TransportOk(1, Bodies)
    \/ TransportErr(1)

SpecSend == Init /\ [][SendNext]_vars

(* Spec: several requests of one Client, built and sent in any order *)

Coins == {None, Some(<<"B", "T", "C">>)}
Windows == {5 * TicksPerMilli}
ClientBodies == {Reply(Num(0), StrV("OK"), Obj("funding"), Num(123)),
                 Reply(Num(10001), StrV("OK"), Obj("empty"), Num(123))}

Next ==
    \/ Tick
    \/ \E i \in Slots :
          \/ FundingBalance(i, Coins, Windows)
          \/ Send(i)
          \/ TransportOk(i, ClientBodies)
          \/ TransportErr(i)

Spec == Init /\ [][Next]_vars

----------------------------------------------------------------------------
(* Properties *)

Active(i) == reqs[i].status \in {"built", "inflight", "done"}
Answered(i) == reqs[i].status = "done" /\ reqs[i].reply.ok

HeaderNames == {"X-BAPI-API-KEY", "X-BAPI-SIGN", "X-BAPI-TIMESTAMP", "X-BAPI-RECV-WINDOW"}

\* timestamp + key + window as the headers of request r carry them
HeaderPrefix(r) ==
    r.headers["X-BAPI-TIMESTAMP"] \o r.headers["X-BAPI-API-KEY"]
    \o r.headers["X-BAPI-RECV-WINDOW"]

EscapedStruct == [kind |-> "struct", a |-> 2, b |-> <<"a", "&", "\"">>]

(* C2: in every built request the signed parameter string is the           *)
(* transmitted one.  A GET request has URI domain + path + "?" + query,    *)
(* an empty body, and a signature over header-prefix + that query; a POST  *)
(* request has URI domain + path, and a signature over header-prefix +     *)
(* its body, which is the JSON text of the parameters.                     *)
C2_SignedIsTransmitted ==
    \A i \in Slots : reqs[i].status = "built" =>
        LET r == reqs[i].req
            in == reqs[i].in
            signedMsg == r.headers["X-BAPI-SIGN"].msg
        IN IF in.verb = "GET"
           THEN LET q == qs_to_string(in.self).val
                IN /\ r.method = "GET"
                   /\ r.uri = in.ep.DOMAIN \o in.ep.ENDPOINT \o "?" \o q
                   /\ r.body = ""
                   /\ signedMsg = HeaderPrefix(r) \o q
           ELSE /\ r.method = "POST"
                /\ r.uri = in.ep.DOMAIN \o in.ep.ENDPOINT
                /\ r.body = json_to_string(in.self).val
                /\ signedMsg = HeaderPrefix(r) \o r.body

C2_Witness ==
    /\ reqs[1].status = "built"
    /\ reqs[1].in.verb = "POST"
    /\ reqs[1].in.self = EscapedStruct
    /\ reqs[1].req.body = "{\"a\":2,\"b\":\"a&\\\"\"}"

(* C3: every built request carries exactly the four X-BAPI headers; the    *)
(* key, timestamp and window headers are the build's key, the instant      *)
(* captured on entry (in milliseconds) and the window (in milliseconds),   *)
(* and the signature is the MAC, under the build's secret, of exactly      *)
(* those three header values followed by the encoded parameters.           *)
C3_SignedValuesAreHeaderValues ==
    \A i \in Slots : reqs[i].status = "built" =>
        LET r == reqs[i].req
            in == reqs[i].in
            h == r.headers
            p == Params_to_string(IF in.verb = "GET" THEN Get(in.self) ELSE Post(in.self))
        IN /\ DOMAIN h = HeaderNames
           /\ h["X-BAPI-API-KEY"] = Str(in.key)
           /\ h["X-BAPI-TIMESTAMP"] = to_string(in.at \div TicksPerMilli)
           /\ h["X-BAPI-RECV-WINDOW"] = to_string(in.recv_window \div TicksPerMilli)
           /\ h["X-BAPI-SIGN"] = [key |-> Str(in.secret), msg |-> HeaderPrefix(r) \o p.val]

\* a built request, the clock by now in a later millisecond than the one
\* captured
C3_Witness ==
    /\ reqs[1].status = "built"
    /\ now \div TicksPerMilli > reqs[1].in.at \div TicksPerMilli
    /\ reqs[1].req.headers["X-BAPI-TIMESTAMP"] = to_string(reqs[1].in.at \div TicksPerMilli)

BuildFails(in) ==
    \/ ~ValidHeaderValue(in.key)
    \/ ~Params_to_string(IF in.verb = "GET" THEN Get(in.self) ELSE Post(in.self)).ok

(* C7: every build in which parameter encoding or header construction      *)
(* fails -- through either as_request or through get_funding_balance --    *)
(* ends with an error returned to the caller, and a build that returns a   *)
(* request returns a complete one.                                         *)
C7_FailuresAreReturned ==
    \A i \in Slots : reqs[i].status # "none" =>
        /\ BuildFails(reqs[i].in) => reqs[i].status = "failed"
        /\ Active(i) => ~BuildFails(reqs[i].in) /\ DOMAIN reqs[i].req.headers = HeaderNames

(* C4: send calls the transport exactly once: a built request has not     *)
(* been handed over, a request in flight or finished has been handed over  *)
(* once, as built.  When the transport fails, send returns that failure    *)
(* and nothing is decoded; when it succeeds, the bytes are decoded once.   *)
C4_TransportCalledOnce ==
    \A i \in Slots :
        /\ reqs[i].status = "built" => reqs[i].calls = 0 /\ reqs[i].decodes = 0
        /\ reqs[i].status = "inflight" =>
              reqs[i].calls = 1 /\ reqs[i].decodes = 0 /\ reqs[i].sent = reqs[i].req
        /\ reqs[i].status = "done" =>
              /\ reqs[i].calls = 1
              /\ reqs[i].sent = reqs[i].req
              /\ reqs[i].reply.ok =>
                    reqs[i].decodes = 1 /\ reqs[i].outcome.kind # "transport"
              /\ ~reqs[i].reply.ok =>
                    reqs[i].decodes = 0 /\ reqs[i].outcome.kind = "transport"

C4_Witness ==
    /\ reqs[1].status = "done"
    /\ ~reqs[1].reply.ok
    /\ reqs[1].outcome.kind = "transport"
    /\ reqs[1].calls = 1

\* the JSON text of an Option<String> message
MessageOf(v) == IF v.t = "str" THEN Some(v.v) ELSE None

(* C1: a reply is treated as an error if and only if its retCode is not    *)
(* 0: every JSON reply with a non-zero (i32) retCode yields the            *)
(* application error carrying that code and the optional message, whatever *)
(* else the reply carries, and no reply with retCode 0 yields one.         *)
C1_ErrorIffNonZero ==
    \A i \in Slots : Answered(i) =>
        LET b == reqs[i].reply.val
            out == reqs[i].outcome
        IN (b.json /\ b.retCode.t = "int") =>
              /\ b.retCode.v # 0 =>
                    /\ out.kind = "app"
                    /\ out.code = b.retCode.v
                    /\ out.message = MessageOf(b.retMsg)
              /\ b.retCode.v = 0 => out.kind # "app"

\* a result field that is present and not of type T
IllTyped(T, v) ==
    /\ v.t # "absent"
    /\ CASE T = "FundingBalance" -> v # Obj("funding")
         [] T = "Value" -> FALSE
         [] T = "Option" -> v \notin {Null, Obj("funding")}

NotU64(v) == v.t \notin {"int", "big"} \/ (v.t = "int" /\ v.v < 0)

(* C8 as stated: a reply that is not JSON, that has no retCode or one that *)
(* is not an i32, or that has retCode 0 with a missing or ill-typed        *)
(* retMsg, result or time, makes send fail with a decode error; send never *)
(* returns an application error with code 0.                               *)
C8_NeitherShapeFails ==
    \A i \in Slots : Answered(i) =>
        LET b == reqs[i].reply.val
            out == reqs[i].outcome
            T == reqs[i].req.T
        IN /\ ~b.json => out.kind = "decode"
           /\ (b.json /\ b.retCode.t # "int") => out.kind = "decode"
           /\ (b.json /\ b.retCode = Num(0)
               /\ (\/ b.retMsg.t # "str"
                   \/ NotU64(b.time)
                   \/ b.result.t = "absent"
                   \/ IllTyped(T, b.result))) => out.kind = "decode"
           /\ out.kind = "app" => out.code # 0

(* C8, amended: as C8, except that a missing result is a decode error only *)
(* when T is not an Option type; for an Option type a reply with retCode 0 *)
(* and no result decodes to the success payload None.  A success payload   *)
(* of any other T is the result field the reply carried.                   *)
C8_NeitherShapeFailsUnlessOptional ==
    \A i \in Slots : Answered(i) =>
        LET b == reqs[i].reply.val
            out == reqs[i].outcome
            T == reqs[i].req.T
        IN /\ ~b.json => out.kind = "decode"
           /\ (b.json /\ b.retCode.t # "int") => out.kind = "decode"
           /\ (b.json /\ b.retCode = Num(0)
               /\ (\/ b.retMsg.t # "str"
                   \/ NotU64(b.time)
                   \/ (b.result.t = "absent" /\ T # "Option")
                   \/ IllTyped(T, b.result))) => out.kind = "decode"
           /\ (b.json /\ b.retCode = Num(0) /\ b.retMsg.t = "str" /\ ~NotU64(b.time)
               /\ b.result.t = "absent" /\ T = "Option") =>
                 out = [kind |-> "ok", result |-> None]
           /\ out.kind = "app" => out.code # 0
           /\ (out.kind = "ok" /\ T # "Option") => out.result = b.result

\* retCode 0 with a null retMsg: neither shape
C8_Witness ==
    /\ Answered(1)
    /\ reqs[1].reply.val.json
    /\ reqs[1].reply.val.retCode = Num(0)
    /\ reqs[1].reply.val.retMsg = Null
    /\ reqs[1].reply.val.result = Obj("funding")
    /\ reqs[1].outcome.kind = "decode"

(* C9 as stated: the display text of an application error is the message   *)
(* (or N/A when retMsg is null or absent) followed by " (code)", and       *)
(* nothing else.                                                           *)
C9_DisplayIsMessageAndCode ==
    \A i \in Slots : (Answered(i) /\ reqs[i].outcome.kind = "app") =>
        LET b == reqs[i].reply.val
        IN reqs[i].outcome.display =
              (IF b.retMsg.t = "str" THEN b.retMsg.v ELSE "N/A")
              \o " (" \o to_string(b.retCode.v) \o ")"

(* C9, amended: the display text is "BybitError: " followed by the message *)
(* (or N/A when retMsg is null or absent) and " (code)".                   *)
C9_DisplayIsPrefixMessageAndCode ==
    \A i \in Slots : (Answered(i) /\ reqs[i].outcome.kind = "app") =>
        LET b == reqs[i].reply.val
        IN /\ b.retCode.v # 0
           /\ reqs[i].outcome.display =
                 "BybitError: "
                 \o (IF b.retMsg.t = "str" THEN b.retMsg.v ELSE "N/A")
                 \o " (" \o to_string(b.retCode.v) \o ")"

C9_Witness ==
    /\ Answered(1)
    /\ reqs[1].reply.val.json
    /\ reqs[1].reply.val.retMsg = Null
    /\ reqs[1].outcome.kind = "app"
    /\ reqs[1].outcome.display = "BybitError: N/A (10001)"

\* the five inputs of sign as it renders them: the secret, the timestamp
\* and the window in whole milliseconds, the key, the encoded parameters
Rendered(x) ==
    <<Str(x.secret), x.timestamp \div TicksPerMilli, Str(x.api_key),
      x.recv_window \div TicksPerMilli, Params_to_string(x.params).val>>

Differences(x, y) == Cardinality({k \in 1..5 : Rendered(x)[k] # Rendered(y)[k]})

BothSigned == signed.called /\ signed.rx.ok /\ signed.ry.ok

(* C5 as stated: two distinct input tuples never yield the same signed     *)
(* base string, and so never the same signature.                           *)
C5_NoCollisions ==
    BothSigned =>
        (Rendered(signed.x) # Rendered(signed.y) =>
            /\ signed.rx.val # signed.ry.val
            /\ (Str(signed.x.secret) = Str(signed.y.secret) =>
                    signed.rx.val.msg # signed.ry.val.msg))

(* C5, amended: sign returns the same signature for the same inputs, and   *)
(* two calls that differ in exactly one of secret, timestamp (ms), key,    *)
(* window (ms) and encoded parameters differ in the MAC's key or in its    *)
(* signed base string; the base string is timestamp-ms + key + window-ms   *)
(* + encoded parameters.                                                   *)
C5_SingleChangeChangesOutput ==
    BothSigned =>
        /\ Rendered(signed.x) = Rendered(signed.y) => signed.rx = signed.ry
        /\ Differences(signed.x, signed.y) = 1 => signed.rx.val # signed.ry.val
        /\ signed.rx.val.msg =
              to_string(Rendered(signed.x)[2]) \o Rendered(signed.x)[3]
              \o to_string(Rendered(signed.x)[4]) \o Rendered(signed.x)[5]

\* two calls that differ in the receive window alone
C5_Witness ==
    /\ BothSigned
    /\ Differences(signed.x, signed.y) = 1
    /\ Rendered(signed.x)[4] # Rendered(signed.y)[4]
    /\ signed.rx.val.msg # signed.ry.val.msg

\* requests i and j were built from the same parameters, key, secret and
\* receive window
SameBuild(i, j) ==
    /\ Active(i) /\ Active(j)
    /\ reqs[i].in.self = reqs[j].in.self
    /\ reqs[i].in.key = reqs[j].in.key
    /\ reqs[i].in.secret = reqs[j].in.secret
    /\ reqs[i].in.recv_window = reqs[j].in.recv_window

Signature(i) == reqs[i].req.headers["X-BAPI-SIGN"]

(* C6 as stated: two requests built from the same parameters, key, secret  *)
(* and window at two different instants carry different signatures.        *)
C6_DistinctInstantsDistinctSignatures ==
    \A i, j \in Slots :
        (SameBuild(i, j) /\ reqs[i].in.at # reqs[j].in.at) =>
            Signature(i) # Signature(j)

(* C6, amended: two requests built from the same parameters, key, secret   *)
(* and window at two instants that differ in their epoch milliseconds are  *)
(* signed over different base strings and carry different signatures; two *)
(* built within the same millisecond carry the same signature.             *)
C6_DistinctMillisDistinctSignatures ==
    \A i, j \in Slots : SameBuild(i, j) =>
        /\ reqs[i].in.at \div TicksPerMilli # reqs[j].in.at \div TicksPerMilli =>
              /\ Signature(i).msg # Signature(j).msg
              /\ Signature(i) # Signature(j)
        /\ reqs[i].in.at \div TicksPerMilli = reqs[j].in.at \div TicksPerMilli =>
              Signature(i) = Signature(j)

C6_Witness ==
    /\ SameBuild(1, 2)
    /\ reqs[1].in.at \div TicksPerMilli # reqs[2].in.at \div TicksPerMilli
    /\ Signature(1) # Signature(2)

\* the request a slot's build returns when it is the only one built
BuiltAlone(in, T) ==
    GetAsRequest(in.self, in.ep, T, in.key, in.secret, in.recv_window,
                 in.at, in.at).val

\* a step leaves the Client alone, changes one slot at most, keeps every
\* built request and the arguments it was built from, and keeps a finished
\* slot as it is
StepIsolated ==
    /\ client' = client
    /\ \A i, j \in Slots : (i # j /\ reqs'[i] # reqs[i]) => reqs'[j] = reqs[j]
    /\ \A i \in Slots :
          /\ Active(i) => /\ reqs'[i].status \in {"built", "inflight", "done"}
                          /\ reqs'[i].in = reqs[i].in
                          /\ reqs'[i].req = reqs[i].req
          /\ reqs[i].status \in {"inflight", "done"} => reqs'[i].sent = reqs[i].sent
          /\ reqs[i].status = "done" => reqs'[i] = reqs[i]

\* every request is what its own build arguments and its own reply make it
AsIfAlone ==
    \A i \in Slots : Active(i) =>
        /\ reqs[i].in.key = client.api_key /\ reqs[i].in.secret = client.secret
        /\ reqs[i].req = BuiltAlone(reqs[i].in, "FundingBalance")
        /\ reqs[i].req.headers["X-BAPI-TIMESTAMP"] = to_string(reqs[i].in.at \div TicksPerMilli)
        /\ reqs[i].status \in {"inflight", "done"} => reqs[i].sent = reqs[i].req
        /\ reqs[i].status = "done" =>
              reqs[i].outcome = Outcome("FundingBalance", reqs[i].reply)

(* C10: under any interleaving of the builds and sends of several requests *)
(* of one Client, no step changes the Client or the arguments a request    *)
(* was built from, a step changes one request at most, a built request     *)
(* stays as built (with the timestamp of its build) up to and after its    *)
(* send, and each request and its outcome are those of the request built   *)
(* and sent alone.                                                         *)
C10_RequestsIndependent == [][StepIsolated]_vars /\ []AsIfAlone

\* request 1 was built first and is still in flight, in a later
\* millisecond, when request 2 has been built, sent and answered
C10_Witness ==
    /\ reqs[1].status = "inflight"
    /\ reqs[2].status = "done"
    /\ reqs[1].in.at < reqs[2].in.at
    /\ now \div TicksPerMilli > reqs[1].in.at \div TicksPerMilli
    /\ reqs[1].sent = reqs[1].req

=============================================================================
